---- MODULE Spec2Model ----
(***************************************************************************)
(* A model of the App component of src/src/App.tsx: the word lookup       *)
(* (searchWord and its continuation after the awaited fetch), the recent    *)
(* searches list and its two effects (load from / save to localStorage).    *)
(*                                                                         *)
(* Strings are sequences of characters, so that trim() and toLowerCase()   *)
(* are computed.  A localStorage value is a sequence of JSON tokens, so    *)
(* that JSON.stringify and JSON.parse are computed.                        *)
(*                                                                         *)
(* React semantics the model relies on:                                    *)
(*  - the state updates a handler makes in one synchronous stretch are     *)
(*    committed together (batching);                                       *)
(*  - on mount the passive effects run in source order with the values of  *)
(*    the first render; a setState made by an effect is rendered after     *)
(*    the effects have run;                                                *)
(*  - an effect whose dependency changed runs after the commit and before  *)
(*    the next update is processed;                                        *)
(*  - an exception thrown by an effect, with no error boundary, unmounts   *)
(*    the tree and the remaining effects of the component do not run.      *)
(***************************************************************************)
EXTENDS Integers, Sequences, FiniteSets, TLC

VARIABLES
    searchTerm,     \* useState('')            line 29
    wordData,       \* useState(null)          line 30
    loading,        \* useState(false)         line 31
    error,          \* useState(null)          line 32
    searchHistory,  \* useState([])            line 33
    storage,        \* localStorage item 'dictionaryHistory'
    requests,       \* lookups issued by fetch and not yet settled, in issue order
    pc,             \* where the component is in its life: load, save0, rerender, run, crashed
    queued,         \* the setSearchHistory queued by the load effect, not yet rendered
    savePending,    \* the save effect is scheduled (its dependency changed)
    touched,        \* a user event or a response has been handled since startup
    boot,           \* the localStorage item as it was found at startup
    last,           \* the last step taken
    arrived,        \* the terms recorded since nothing was in flight, latest arrival first
    view,           \* what the render of lines 180-272 shows for wordData
    plays,          \* audio.play() promises not yet settled, each with its closure
    spoken,         \* the utterance last given to speechSynthesis.speak
    speech          \* 'speechSynthesis' in window

vars == <<searchTerm, wordData, loading, error, searchHistory, storage,
          requests, pc, queued, savePending, touched, boot, last, arrived, view,
          plays, spoken, speech>>

----------------------------------------------------------------------------
(* Bounds of the model *)

\* lookups that may be in flight at once
MaxInflight == 2

\* length of the longest history the record function is tried on
MaxHist == 6

\* length of the longest synonyms / antonyms list of a definition
MaxSyn == 6

\* length of the longest phonetics list of a word record
MaxPhon == 2

\* audio playbacks started and not yet settled
MaxPlays == 1

(* Program constants *)

\* .slice(0, 5), line 53
HistoryCap == 5

----------------------------------------------------------------------------
(* JavaScript values *)

Null == [t |-> "null"]
Undefined == [t |-> "undefined"]
Str(s) == [t |-> "string", s |-> s]

\* a value used as a condition: null, undefined and '' are falsy
Truthy(v) == /\ v.t \notin {"null", "undefined"}
             /\ (v.t = "string" => v.s # "")

\* setError(...) argument, line 57
ErrorMessage == Str("Word not found. Please check the spelling and try again.")

----------------------------------------------------------------------------
(* Strings: sequences of characters *)

Whitespace == {" "}

LowerChar(c) == CASE c = "A" -> "a"
                  [] c = "B" -> "b"
                  [] OTHER -> c

\* String.prototype.toLowerCase
toLowerCase(w) == [i \in 1..Len(w) |-> LowerChar(w[i])]

RECURSIVE trimStart(_)
trimStart(w) == IF w # <<>> /\ Head(w) \in Whitespace THEN trimStart(Tail(w)) ELSE w

RECURSIVE trimEnd(_)
trimEnd(w) == IF w # <<>> /\ w[Len(w)] \in Whitespace
              THEN trimEnd(SubSeq(w, 1, Len(w) - 1)) ELSE w

\* String.prototype.trim
trim(w) == trimEnd(trimStart(w))

\* !word.trim(), line 36 and line 140: the empty string is falsy
IsBlank(w) == trim(w) = <<>>

\* the texts the user types into the input
TypedTerms == { <<>>, <<" ">>, <<"a">>, <<"A">>, <<"b">> }

----------------------------------------------------------------------------
(* JSON texts: sequences of tokens *)

LBracket == [k |-> "[", s |-> <<>>]
RBracket == [k |-> "]", s |-> <<>>]
Comma == [k |-> ",", s |-> <<>>]
StrTok(w) == [k |-> "str", s |-> w]
Junk == [k |-> "junk", s |-> <<>>]

RECURSIVE JoinTokens(_)
JoinTokens(list) ==
    IF list = <<>> THEN <<>>
    ELSE IF Len(list) = 1 THEN <<StrTok(list[1])>>
    ELSE <<StrTok(list[1]), Comma>> \o JoinTokens(Tail(list))

\* JSON.stringify of an array of strings, line 110
JSONstringify(list) == <<LBracket>> \o JoinTokens(list) \o <<RBracket>>

\* JSON.parse, line 104: ok = FALSE stands for the SyntaxError it throws
JSONparse(text) ==
    LET n == Len(text)
        inner == SubSeq(text, 2, n - 1)
        m == Len(inner)
        wellFormed ==
            /\ n >= 2
            /\ text[1] = LBracket
            /\ text[n] = RBracket
            /\ (m = 0 \/ m % 2 = 1)
            /\ \A i \in 1..m : IF i % 2 = 1 THEN inner[i].k = "str" ELSE inner[i] = Comma
    IN IF wellFormed
       THEN [ok |-> TRUE, val |-> [i \in 1..((m + 1) \div 2) |-> inner[2 * i - 1].s]]
       ELSE [ok |-> FALSE, val |-> <<>>]

\* a localStorage item: getItem returns null when the key is absent
NoItem == [present |-> FALSE, text |-> <<>>]
Item(text) == [present |-> TRUE, text |-> text]

\* `if (saved)`, line 103: null and the empty string are falsy
SavedIsTruthy(item) == item.present /\ item.text # <<>>

\* the arrays of strings found in storage at startup
StoredLists ==
    { <<>>,
      << <<"a">>, <<"b">> >>,
      << <<" ">> >>,
      << <<"a">>, <<"a">> >>,
      << <<"a">>, <<"b">>, <<"a">>, <<"b">>, <<"a">>, <<"b">> >> }

\* the texts that are no JSON: an unrelated text, an array cut short
CorruptTexts == { <<Junk>>, <<LBracket, StrTok(<<"a">>)>> }

\* the item found in storage at startup
StoredItems == {NoItem, Item(<<>>)}
               \cup { Item(JSONstringify(h)) : h \in StoredLists }
               \cup { Item(txt) : txt \in CorruptTexts }

----------------------------------------------------------------------------
(* The dictionary service *)

\* a Phonetic object, lines 16-19
Phonetic(text, audio) == [text |-> text, audio |-> audio]

\* a Definition object, lines 4-9 (its text and example play no part here)
Definition(synonyms, antonyms) == [synonyms |-> synonyms, antonyms |-> antonyms]

\* a Meaning object, lines 11-14
Meaning(partOfSpeech, definitions) ==
    [partOfSpeech |-> partOfSpeech, definitions |-> definitions]

\* an array as a JavaScript value
Arr(items) == [t |-> "array", items |-> items]

\* the phonetics the service sends: the first headword variant has a
\* transcription without audio and then an entry with audio, the others none
ServicePhonetics(variant) ==
    IF variant = 1
    THEN << Phonetic(Str("t"), Str("")), Phonetic(Undefined, Str("u1")) >>
    ELSE << Phonetic(Str("t"), Undefined) >>

\* a WordData object, lines 21-26; variant tells the headword variants apart
WordRecord(key, variant) ==
    [t |-> "object", word |-> key, variant |-> variant,
     phonetics |-> ServicePhonetics(variant), meanings |-> <<>>]

\* the bodies of a 2xx response to the lookup of key
Bodies(key) ==
    { [json |-> "undecodable", elems |-> <<>>],
      [json |-> "null", elems |-> <<>>],
      [json |-> "object", elems |-> <<>>],
      [json |-> "array", elems |-> <<>>],
      [json |-> "array", elems |-> <<WordRecord(key, 1), WordRecord(key, 2)>>] }

NoBody == [json |-> "none", elems |-> <<>>]

\* how a lookup of key settles: the fetch rejects, or resolves with a response
Outcomes(key) ==
    { [net |-> "reject", ok |-> FALSE, body |-> NoBody],
      [net |-> "response", ok |-> FALSE, body |-> NoBody] }
    \cup { [net |-> "response", ok |-> TRUE, body |-> b] : b \in Bodies(key) }

\* the path parameter of the request, line 42
LookupKey(word) == toLowerCase(word)

----------------------------------------------------------------------------
(* The recent searches list *)

RECURSIVE filterOutInverted(_, _)
\* as filterOut, were the test of the filter inverted (item === word)
filterOutInverted(prev, word) ==
    IF prev = <<>> THEN <<>>
    ELSE IF Head(prev) = word
         THEN <<Head(prev)>> \o filterOutInverted(Tail(prev), word)
         ELSE filterOutInverted(Tail(prev), word)

RECURSIVE filterOut(_, _)
\* prev.filter(item => item !== word), line 53
filterOut(prev, word) ==
    IF prev = <<>> THEN <<>>
    ELSE IF Head(prev) # word
         THEN <<Head(prev)>> \o filterOut(Tail(prev), word)
         ELSE filterOut(Tail(prev), word)

\* Array.prototype.slice(0, n)
sliceFromStart(list, n) == SubSeq(list, 1, IF Len(list) < n THEN Len(list) ELSE n)

\* as Record, were the list cut before the term is put in front
RecordCutFirst(word, prev) == <<word>> \o sliceFromStart(filterOut(prev, word), HistoryCap)
\* the updater given to setSearchHistory, lines 52-55
Record(word, prev) == sliceFromStart(<<word>> \o filterOut(prev, word), HistoryCap)

----------------------------------------------------------------------------
(* The result render, lines 180-272 *)

\* ', ' of .join(', '), lines 251 and 260
Separator == <<",", " ">>

RECURSIVE join(_, _)
\* Array.prototype.join
join(list, sep) ==
    IF list = <<>> THEN <<>>
    ELSE IF Len(list) = 1 THEN list[1]
    ELSE list[1] \o sep \o join(Tail(list), sep)

NoLine == [shown |-> FALSE, text |-> <<>>]

\* as WordsLine, were the list joined without being sliced
WordsLineUncut(list) ==
    IF Truthy(list) /\ Len(list.items) > 0
    THEN [shown |-> TRUE, text |-> join(list.items, Separator)]
    ELSE NoLine
\* the synonyms line and the antonyms line, lines 247-263: shown for a
\* non-empty list, with its first 5 entries joined
WordsLine(list) ==
    IF Truthy(list) /\ Len(list.items) > 0
    THEN [shown |-> TRUE, text |-> join(sliceFromStart(list.items, 5), Separator)]
    ELSE NoLine

\* as FindAudio, were the first entry taken whether it has audio or not
FindAudioFirstEntry(phonetics) == IF phonetics = <<>> THEN Undefined ELSE phonetics[1].audio
\* wordData.phonetics.find(p => p.audio)?.audio, lines 192 and 195-196:
\* the audio of the first entry that has a truthy one
FindAudio(phonetics) ==
    LET hits == { i \in 1..Len(phonetics) : Truthy(phonetics[i].audio) }
    IN IF hits = {} THEN Undefined
       ELSE phonetics[CHOOSE i \in hits : \A j \in hits : i <= j].audio

\* the transcription shown under the headword, lines 187-189
PhoneticText(phonetics) ==
    IF Len(phonetics) > 0 /\ Truthy(phonetics[1].text) THEN phonetics[1].text ELSE Undefined

NoView == [shown |-> FALSE]

\* what is rendered for wordData, lines 180-272: the headword, the Play
\* Audio button (shown when an entry has audio; a click plays `plays`), the
\* Pronounce button (a click speaks `speaks`), and per definition the
\* synonyms and antonyms lines
Render(data) ==
    IF ~Truthy(data) THEN NoView
    ELSE [shown |-> TRUE,
          headword |-> data.word,
          phoneticText |-> PhoneticText(data.phonetics),
          playAudio |-> [shown |-> Truthy(FindAudio(data.phonetics)),
                         plays |-> FindAudio(data.phonetics)],
          pronounce |-> [shown |-> TRUE, speaks |-> data.word],
          meanings |->
              [m \in 1..Len(data.meanings) |->
                  [d \in 1..Len(data.meanings[m].definitions) |->
                      [number |-> d,
                       synonyms |-> WordsLine(data.meanings[m].definitions[d].synonyms),
                       antonyms |-> WordsLine(data.meanings[m].definitions[d].antonyms)]]]]

----------------------------------------------------------------------------
(* searchWord, lines 35-62 *)

\* the try block throws (lines 42-49): the fetch rejects, the status is not
\* 2xx, the body is no JSON, or the body is null and data[0] is a TypeError
TryThrows(outcome) ==
    \/ outcome.net = "reject"
    \/ ~outcome.ok
    \/ outcome.body.json = "undecodable"
    \/ outcome.body.json = "null"

\* data[0], line 49: undefined for an empty array and for an object
Element0(body) ==
    IF body.json = "array" /\ Len(body.elems) > 0 THEN body.elems[1] ELSE Undefined

\* the state searchWord leaves when it returns at its await, lines 36-42
\* as StartedLoading, without the guard of line 36
StartedLoadingUnguarded(word, cur) == TRUE
StartedLoading(word, cur) == IF IsBlank(word) THEN cur ELSE TRUE
StartedError(word, cur) == IF IsBlank(word) THEN cur ELSE Null
StartedRequests(word, cur) ==
    IF IsBlank(word) THEN cur ELSE Append(cur, [word |-> word, key |-> LookupKey(word)])

\* the state the continuation of searchWord leaves, lines 44-61
SettledWordData(outcome, cur) == IF TryThrows(outcome) THEN Null ELSE Element0(outcome.body)
SettledError(outcome, cur) == IF TryThrows(outcome) THEN ErrorMessage ELSE cur
\* as SettledHistory, were the term recorded before the response is looked at
SettledHistoryEager(outcome, word, prev) == Record(word, prev)
SettledHistory(outcome, word, prev) == IF TryThrows(outcome) THEN prev ELSE Record(word, prev)
\* as SettledLoading, were setLoading(false) the last statement of the try
\* block instead of the finally block
SettledLoadingInTry(outcome, cur) == IF TryThrows(outcome) THEN cur ELSE FALSE
SettledLoading(outcome, cur) == FALSE

\* `disabled={loading || !searchTerm.trim()}`, line 140
SubmitDisabled == loading \/ IsBlank(searchTerm)

----------------------------------------------------------------------------
(* The state machine *)

NoOutcome == [net |-> "none", ok |-> FALSE, body |-> NoBody]

\* the record of a step: the operation, the term it was given, how the lookup settled
Step(op, word, outcome) == [op |-> op, word |-> word, outcome |-> outcome]

NothingQueued == [pending |-> FALSE, val |-> <<>>]

\* the state after the first render, lines 29-33, with whatever is in storage
InitApp ==
    /\ searchTerm = <<>>
    /\ wordData = Null
    /\ loading = FALSE
    /\ error = Null
    /\ searchHistory = <<>>
    /\ storage \in StoredItems
    /\ boot = storage
    /\ requests = <<>>
    /\ pc = "load"
    /\ queued = NothingQueued
    /\ savePending = FALSE
    /\ touched = FALSE
    /\ last = Step("init", <<>>, NoOutcome)
    /\ arrived = <<>>
    /\ view = NoView
    /\ plays = <<>>
    /\ spoken = Null

\* on a platform with speech synthesis
Init == InitApp /\ speech = TRUE

\* what the load effect decides, lines 102-105
LoadThrows(item) == SavedIsTruthy(item) /\ ~JSONparse(item.text).ok
\* as LoadQueues, were the loaded list cut to the cap
LoadQueuesCut(item) ==
    IF SavedIsTruthy(item) /\ JSONparse(item.text).ok
    THEN [pending |-> TRUE, val |-> sliceFromStart(JSONparse(item.text).val, HistoryCap)]
    ELSE NothingQueued
LoadQueues(item) ==
    IF SavedIsTruthy(item) /\ JSONparse(item.text).ok
    THEN [pending |-> TRUE, val |-> JSONparse(item.text).val]
    ELSE NothingQueued

\* the load effect, lines 100-106, run once after the first render
LoadHistory ==
    /\ pc = "load"
    /\ pc' = IF LoadThrows(storage) THEN "crashed" ELSE "save0"
    /\ queued' = LoadQueues(storage)
    /\ last' = Step("load", <<>>, NoOutcome)
    /\ UNCHANGED <<searchTerm, wordData, loading, error, searchHistory, storage,
                   requests, savePending, touched, boot>>

\* what the save effect writes, line 110
SavedItem(history) == Item(JSONstringify(history))

\* the save effect, lines 108-111: after the first render, and after every
\* render in which searchHistory changed
SaveHistory ==
    /\ \/ pc = "save0"
       \/ pc = "run" /\ savePending
    /\ storage' = SavedItem(searchHistory)
    /\ savePending' = FALSE
    /\ pc' = IF pc = "save0" /\ queued.pending THEN "rerender" ELSE "run"
    /\ last' = Step("save", <<>>, NoOutcome)
    /\ UNCHANGED <<searchTerm, wordData, loading, error, searchHistory,
                   requests, queued, touched, boot>>

\* the render of the setSearchHistory(JSON.parse(saved)) of line 104: the
\* parsed array is a new object, so the dependency of the save effect changed
RenderLoaded ==
    /\ pc = "rerender"
    /\ searchHistory' = queued.val
    /\ queued' = NothingQueued
    /\ savePending' = TRUE
    /\ pc' = "run"
    /\ last' = Step("render", <<>>, NoOutcome)
    /\ UNCHANGED <<searchTerm, wordData, loading, error, storage, requests,
                   touched, boot>>

\* the component handles events: mounted, and no effect left to run
Ready == pc = "run" /\ ~savePending

\* onChange of the input, line 133
TypeTerm(text) ==
    /\ Ready
    /\ searchTerm' = text
    /\ touched' = TRUE
    /\ last' = Step("type", <<>>, NoOutcome)
    /\ UNCHANGED <<wordData, loading, error, searchHistory, storage, requests,
                   pc, queued, savePending, boot>>

\* searchWord up to its await, lines 35-42
SearchWordStart(word) ==
    /\ IsBlank(word) \/ Len(requests) < MaxInflight
    /\ loading' = StartedLoading(word, loading)
    /\ error' = StartedError(word, error)
    /\ requests' = StartedRequests(word, requests)
    /\ UNCHANGED <<wordData, searchHistory, storage>>

\* handleSubmit, lines 64-67, reached through the submit button of line 138
HandleSubmit ==
    /\ Ready
    /\ ~SubmitDisabled
    /\ SearchWordStart(searchTerm)
    /\ touched' = TRUE
    /\ last' = Step("submit", searchTerm, NoOutcome)
    /\ UNCHANGED <<searchTerm, pc, queued, savePending, boot>>

\* onClick of a recent search, lines 155-158
RecentClick(i) ==
    /\ Ready
    /\ i \in 1..Len(searchHistory)
    /\ searchTerm' = searchHistory[i]
    /\ SearchWordStart(searchHistory[i])
    /\ touched' = TRUE
    /\ last' = Step("recent", searchHistory[i], NoOutcome)
    /\ UNCHANGED <<pc, queued, savePending, boot>>

\* as SaveScheduled, were the effect given no dependency ([] for [searchHistory])
SaveScheduledOnMountOnly(outcome) == FALSE
\* the dependency of the save effect, line 111: setSearchHistory (line 52)
\* was called, and its updater returns a new array
SaveScheduled(outcome) == ~TryThrows(outcome)

\* the continuation of searchWord when request i settles, lines 42-61; the
\* awaits of fetch and of response.json() are taken in one step, no state
\* being read or written between them
FetchSettles(i, outcome) ==
    /\ Ready
    /\ i \in 1..Len(requests)
    /\ outcome \in Outcomes(requests[i].key)
    /\ wordData' = SettledWordData(outcome, wordData)
    /\ error' = SettledError(outcome, error)
    /\ searchHistory' = SettledHistory(outcome, requests[i].word, searchHistory)
    /\ loading' = SettledLoading(outcome, loading)
    /\ savePending' = SaveScheduled(outcome)
    /\ requests' = [j \in 1..(Len(requests) - 1) |->
                        IF j < i THEN requests[j] ELSE requests[j + 1]]
    /\ touched' = TRUE
    /\ last' = Step("settle", requests[i].word, outcome)
    /\ UNCHANGED <<searchTerm, storage, pc, queued, boot>>

\* some lookup in flight settles
Settle == \E i \in 1..Len(requests) :
              \E outcome \in Outcomes(requests[i].key) : FetchSettles(i, outcome)

\* nothing is played or spoken
Unplayed == UNCHANGED <<plays, spoken, speech>>

\* the audit of the arrivals is not kept, the render is not looked at
Unaudited == UNCHANGED <<arrived, view>> /\ Unplayed

Next ==
    \/ LoadHistory /\ Unaudited
    \/ SaveHistory /\ Unaudited
    \/ RenderLoaded /\ Unaudited
    \/ (\E text \in TypedTerms : TypeTerm(text)) /\ Unaudited
    \/ HandleSubmit /\ Unaudited
    \/ (\E i \in 1..Len(searchHistory) : RecentClick(i)) /\ Unaudited
    \/ Settle /\ Unaudited

Spec == Init /\ [][Next]_vars

\* the audit of the arrivals: a search started with nothing in flight opens
\* a new round; a lookup whose term is recorded puts the term in front
Audited ==
    /\ UNCHANGED view
    /\ Unplayed
    /\ arrived' =
        IF last'.op = "settle" /\ ~TryThrows(last'.outcome)
        THEN <<last'.word>> \o SelectSeq(arrived, LAMBDA x : x # last'.word)
        ELSE IF last'.op \in {"submit", "recent"} /\ ~IsBlank(last'.word) /\ requests = <<>>
        THEN <<>>
        ELSE arrived

NextRace ==
    \/ LoadHistory /\ Audited
    \/ SaveHistory /\ Audited
    \/ RenderLoaded /\ Audited
    \/ (\E text \in TypedTerms : TypeTerm(text)) /\ Audited
    \/ HandleSubmit /\ Audited
    \/ (\E i \in 1..Len(searchHistory) : RecentClick(i)) /\ Audited
    \/ Settle /\ Audited

\* the same component from a two-entry stored history, the arrivals audited
InitRace == Init /\ storage = Item(JSONstringify(<< <<"a">>, <<"b">> >>))

SpecRace == InitRace /\ [][NextRace]_vars

\* startup with nothing stored, or with a two-entry history stored
InitLive == Init /\ storage \in { NoItem, Item(JSONstringify(<< <<"a">>, <<"b">> >>)) }

\* the same component, every issued lookup settling in the end (the fetch
\* resolves or rejects) and React running the effects it scheduled
SpecLive == InitLive /\ [][Next]_vars
                     /\ WF_vars(Settle /\ Unaudited) /\ WF_vars(SaveHistory /\ Unaudited)

----------------------------------------------------------------------------
(* The record function on its own: every history up to MaxHist entries over *)
(* RecordTerms, and the two histories of five distinct terms               *)

RecordTerms == { <<"a">>, <<"A">>, <<"b">> }

RECURSIVE SeqsUpTo(_, _)
SeqsUpTo(S, n) ==
    IF n = 0 THEN { <<>> }
    ELSE LET shorter == SeqsUpTo(S, n - 1)
         IN shorter \cup { Append(q, x) : q \in { r \in shorter : Len(r) = n - 1 }, x \in S }

FiveDistinct == { << <<"b">>, <<"a">>, <<"c">>, <<"d">>, <<"e">> >>,
                  << <<"e">>, <<"d">>, <<"c">>, <<"b">>, <<"a">> >> }

InitRecord ==
    /\ searchHistory \in SeqsUpTo(RecordTerms, MaxHist) \cup FiveDistinct
    /\ searchTerm \in RecordTerms \cup { <<"f">> }
    /\ wordData = Null
    /\ loading = FALSE
    /\ error = Null
    /\ storage = NoItem
    /\ boot = NoItem
    /\ requests = <<>>
    /\ pc = "record"
    /\ queued = NothingQueued
    /\ savePending = FALSE
    /\ touched = FALSE
    /\ last = Step("init", <<>>, NoOutcome)
    /\ arrived = <<>>
    /\ view = NoView
    /\ plays = <<>>
    /\ spoken = Null
    /\ speech = TRUE

\* the updater of lines 52-55 applied to the term and the history drawn
ApplyRecord ==
    /\ pc = "record"
    /\ searchHistory' = Record(searchTerm, searchHistory)
    /\ pc' = "recorded"
    /\ last' = Step("record", searchTerm, NoOutcome)
    /\ UNCHANGED <<searchTerm, wordData, loading, error, storage, requests,
                   queued, savePending, touched, boot, arrived, view,
                   plays, spoken, speech>>

NextRecord == ApplyRecord

SpecRecord == InitRecord /\ [][NextRecord]_vars

----------------------------------------------------------------------------
(* Audio playback and speech synthesis, lines 69-84, 191-213 *)

\* new SpeechSynthesisUtterance(text) with rate 0.8 and pitch 1, lines 71-73
Utterance(text) == [text |-> text, rate |-> <<8, 10>>, pitch |-> 1]

\* pronounceWord, lines 69-76: speaks only where the platform has speech synthesis
pronounceWord(text, prev) == IF speech THEN Utterance(text) ELSE prev

\* wordData?.word || '', line 82
HeadwordOrEmpty(data) == IF data.t = "object" /\ data.word # <<>> THEN data.word ELSE <<>>

RemoveAt(seq, i) == SubSeq(seq, 1, i - 1) \o SubSeq(seq, i + 1, Len(seq))

\* the app state an audio step leaves alone
AudioFrame == UNCHANGED <<searchTerm, wordData, loading, error, searchHistory, storage,
                          requests, pc, queued, savePending, touched, boot,
                          arrived, view, speech>>

\* click on Play Audio, lines 192-199, and playAudio up to play(), lines 78-80:
\* the catch handler closes over the wordData of this render
ClickPlayAudio ==
    /\ Ready
    /\ Render(wordData).shown
    /\ Render(wordData).playAudio.shown
    /\ Len(plays) < MaxPlays
    /\ plays' = Append(plays, [url |-> Render(wordData).playAudio.plays,
                               closure |-> wordData])
    /\ last' = Step("play", wordData.word, NoOutcome)
    /\ spoken' = spoken
    /\ AudioFrame

\* the play() promise resolves: nothing more happens
PlayStarts(i) ==
    /\ plays' = RemoveAt(plays, i)
    /\ last' = Step("playing", plays[i].closure.word, NoOutcome)
    /\ spoken' = spoken
    /\ AudioFrame

\* as PlayFails, were the failure reported like a failed lookup
PlayFailsSurfaced(i) ==
    /\ plays' = RemoveAt(plays, i)
    /\ spoken' = pronounceWord(HeadwordOrEmpty(plays[i].closure), spoken)
    /\ error' = ErrorMessage
    /\ last' = Step("playfail", HeadwordOrEmpty(plays[i].closure), NoOutcome)
    /\ UNCHANGED <<searchTerm, wordData, loading, searchHistory, storage,
                   requests, pc, queued, savePending, touched, boot,
                   arrived, view, speech>>
\* the play() promise rejects: the catch handler of lines 80-83
PlayFails(i) ==
    /\ plays' = RemoveAt(plays, i)
    /\ spoken' = pronounceWord(HeadwordOrEmpty(plays[i].closure), spoken)
    /\ last' = Step("playfail", HeadwordOrEmpty(plays[i].closure), NoOutcome)
    /\ AudioFrame

\* click on Pronounce, lines 206-207
ClickPronounce ==
    /\ Ready
    /\ Render(wordData).shown
    /\ spoken' = pronounceWord(Render(wordData).pronounce.speaks, spoken)
    /\ last' = Step("pronounce", wordData.word, NoOutcome)
    /\ plays' = plays
    /\ AudioFrame

PlaySettles == \E i \in 1..Len(plays) : PlayStarts(i) \/ PlayFails(i)

\* the lookups are started from the form, one at a time
NextAudio ==
    \/ LoadHistory /\ Unaudited
    \/ SaveHistory /\ Unaudited
    \/ RenderLoaded /\ Unaudited
    \/ (\E text \in TypedTerms : TypeTerm(text)) /\ Unaudited
    \/ HandleSubmit /\ Unaudited
    \/ Settle /\ Unaudited
    \/ ClickPlayAudio
    \/ PlaySettles
    \/ ClickPronounce

\* with two terms stored, on a platform with or without speech synthesis
InitAudio == InitApp /\ storage = Item(JSONstringify(<< <<"a">>, <<"b">> >>)) /\ speech \in BOOLEAN

SpecAudio == InitAudio /\ [][NextAudio]_vars

----------------------------------------------------------------------------
(* The result render on its own: word records with every phonetics list up *)
(* to MaxPhon entries and synonyms / antonyms lists up to MaxSyn entries    *)

Digits == <<"1", "2", "3", "4", "5", "6", "7", "8", "9">>

\* the lists w1, w2, ..., wn and the missing list
WordLists(n) == { Undefined } \cup { Arr([i \in 1..k |-> <<"w", Digits[i]>>]) : k \in 0..n }

PhoneticEntries == { Phonetic(t, a) : t \in { Undefined, Str("t") },
                                      a \in { Undefined, Str(""), Str("u1"), Str("u2") } }

RenderRecords ==
    { [t |-> "object", word |-> <<"a">>, variant |-> 1, phonetics |-> ph,
       meanings |-> << Meaning("noun", << Definition(syn, ant) >>) >>] :
         ph \in SeqsUpTo(PhoneticEntries, MaxPhon),
         syn \in WordLists(MaxSyn), ant \in WordLists(MaxSyn) }

InitRender ==
    /\ wordData \in RenderRecords
    /\ view = NoView
    /\ searchTerm = <<"a">>
    /\ searchHistory = << <<"a">> >>
    /\ loading = FALSE
    /\ error = Null
    /\ storage = SavedItem(<< <<"a">> >>)
    /\ boot = NoItem
    /\ requests = <<>>
    /\ pc = "render"
    /\ queued = NothingQueued
    /\ savePending = FALSE
    /\ touched = TRUE
    /\ last = Step("settle", <<"a">>, NoOutcome)
    /\ arrived = <<>>
    /\ plays = <<>>
    /\ spoken = Null
    /\ speech = TRUE

\* the render of the word record, lines 180-272
RenderResult ==
    /\ pc = "render"
    /\ view' = Render(wordData)
    /\ pc' = "rendered"
    /\ UNCHANGED <<searchTerm, wordData, loading, error, searchHistory, storage,
                   requests, queued, savePending, touched, boot, last, arrived,
                   plays, spoken, speech>>

NextRender == RenderResult

SpecRender == InitRender /\ [][NextRender]_vars

----------------------------------------------------------------------------
(* Claims *)

\* the last step was the continuation of searchWord for a settled lookup
Settled == last.op = "settle"

\* the lookup got a response with a status outside 2xx
Non2xx(outcome) == outcome.net = "response" /\ ~outcome.ok

\* the lookup got a 2xx response whose body is a JSON array
SucceededWithArray(outcome) ==
    outcome.net = "response" /\ outcome.ok /\ outcome.body.json = "array"

\* C1: the UI never holds a word record and an error message at the same
\* time (a new search clears the error before its response is processed).
C1_RecordXorError == ~(Truthy(wordData) /\ Truthy(error))

\* C2: once a non-2xx response is processed the word record is null, the
\* error message is set, and the history list is what it was before.
C2_Non2xxClearsAndKeepsHistory ==
    [][ (last'.op = "settle" /\ Non2xx(last'.outcome))
            => /\ wordData' = Null
               /\ error' = ErrorMessage
               /\ searchHistory' = searchHistory ]_vars

C2_Witness ==
    /\ Settled /\ Non2xx(last.outcome)
    /\ wordData = Null /\ error = ErrorMessage
    /\ Len(searchHistory) > 0
    /\ last.word \notin { searchHistory[i] : i \in 1..Len(searchHistory) }

\* C3: once a successful response (2xx, array body) to the search of a
\* non-blank term t is processed, the word record is element 0 of the
\* response, the error is null, t is at the front of the history and
\* loading is false.
C3_SuccessState ==
    (Settled /\ SucceededWithArray(last.outcome))
        => /\ ~IsBlank(last.word)
           /\ wordData = Element0(last.outcome.body)
           /\ error = Null
           /\ Len(searchHistory) > 0 /\ searchHistory[1] = last.word
           /\ ~loading

\* C4: a search of an empty or whitespace-only term issues no lookup and
\* leaves word record, error, loading, history and storage unchanged.
C4_BlankSearchIsNoOp ==
    [][ (last'.op \in {"submit", "recent"} /\ IsBlank(last'.word))
            => UNCHANGED <<requests, wordData, error, loading, searchHistory, storage>> ]_vars

C4_Witness ==
    /\ last.op = "recent" /\ IsBlank(last.word) /\ last.word # <<>>
    /\ Truthy(wordData)
    /\ Len(requests) > 0

\* C5: in every reachable state the history list has at most 5 entries and
\* holds no term more than once.
C5_CappedAndDistinct ==
    /\ Len(searchHistory) <= HistoryCap
    /\ \A i, j \in 1..Len(searchHistory) : searchHistory[i] = searchHistory[j] => i = j

\* the list made of t followed by h without its occurrences of t, cut to 5
Without(h, t) == LET Keep(x) == x # t IN SelectSeq(h, Keep)
MovedToFront(t, h) == LET all == <<t>> \o Without(h, t)
                      IN [i \in 1..(IF Len(all) < 5 THEN Len(all) ELSE 5) |-> all[i]]

\* C6: recording t into h yields the first 5 entries of t followed by h
\* without t: t is at the front, the other terms keep their order, and a
\* full h not containing t loses its last entry.
C6_RecordMovesToFront ==
    [][ pc' = "recorded"
            => /\ searchHistory' = MovedToFront(searchTerm, searchHistory)
               /\ searchHistory'[1] = searchTerm
               /\ \A i \in 2..Len(searchHistory') :
                      searchHistory'[i] = Without(searchHistory, searchTerm)[i - 1]
               /\ (Len(searchHistory) = 5 /\ Without(searchHistory, searchTerm) = searchHistory)
                      => searchHistory' = <<searchTerm>> \o SubSeq(searchHistory, 1, 4) ]_vars

C6_Witness ==
    /\ pc = "recorded"
    /\ last.word = <<"f">>
    /\ searchHistory = << <<"f">>, <<"e">>, <<"d">>, <<"c">>, <<"b">> >>


\* startup is over: both effects ran, the loaded list was rendered and saved,
\* and nothing else has happened yet
StartupDone == pc = "run" /\ ~savePending /\ ~touched

\* C7: for every list h of strings stored as a JSON array, once the startup
\* effects have run the in-memory history is h and storage again holds h.
C7_ReloadRoundTrip ==
    \A h \in StoredLists :
        (StartupDone /\ boot = Item(JSONstringify(h)))
            => /\ searchHistory = h
               /\ storage = Item(JSONstringify(h))

C7_Witness ==
    /\ StartupDone
    /\ boot = Item(<<LBracket, StrTok(<<"a">>), Comma, StrTok(<<"b">>), RBracket>>)
    /\ searchHistory = << <<"a">>, <<"b">> >>
    /\ storage = boot
    /\ last.op = "save"

\* the stored value is missing, or is no JSON array of strings
MissingOrCorrupt(item) ==
    \/ ~item.present
    \/ item.text \in CorruptTexts

\* C8: loading the history when the stored value is missing or corrupt
\* yields an empty list and the application keeps running, never crashed.
C8_CorruptLoadsEmpty ==
    MissingOrCorrupt(boot)
        => /\ pc # "crashed"
           /\ (pc = "run" /\ ~touched) => searchHistory = <<>>

\* C9: every change of the history list is followed by the write of that
\* list to storage before anything else is processed, so that whenever no
\* persist effect is pending the stored value is the in-memory history.
C9_ChangeThenPersist ==
    /\ []((pc = "run" /\ ~savePending) => storage = Item(JSONstringify(searchHistory)))
    /\ [][ (pc = "run" /\ pc' = "run" /\ searchHistory' # searchHistory) => savePending' ]_vars
    /\ [][ (pc = "run" /\ savePending)
              => /\ storage' = Item(JSONstringify(searchHistory))
                 /\ searchHistory' = searchHistory
                 /\ ~savePending' ]_vars

C9_Witness ==
    /\ pc = "run" /\ ~savePending /\ touched
    /\ last.op = "save"
    /\ storage = Item(JSONstringify(searchHistory))
    /\ storage # boot
    /\ Len(searchHistory) > 1

\* the lookup failed: the fetch rejected, the status is not 2xx, or the 2xx
\* body cannot be decoded or is no array with a record at element 0
Failed(outcome) ==
    \/ outcome.net = "reject"
    \/ Non2xx(outcome)
    \/ /\ outcome.net = "response" /\ outcome.ok
       /\ \/ outcome.body.json # "array"
          \/ Len(outcome.body.elems) = 0

\* C10: every failed lookup, whatever its cause, ends in the same state:
\* word record cleared, the one error message set, loading false.
C10_EveryFailureCollapses ==
    (Settled /\ Failed(last.outcome))
        => /\ wordData = Null
           /\ error = ErrorMessage
           /\ ~loading


\* the UI is idle: mounted, no effect left to run, not loading
Idle == Ready /\ ~loading

AloneWordData(outcome) == IF TryThrows(outcome) THEN Null ELSE Element0(outcome.body)
AloneError(outcome) == IF TryThrows(outcome) THEN ErrorMessage ELSE Null

\* C14: with a second search issued while a first is in flight, once both
\* responses are processed the word record and the error are those the
\* response that arrived last produces on its own.
C14_LastArrivalWins ==
    (Settled /\ requests = <<>>)
        => /\ wordData = AloneWordData(last.outcome)
           /\ error = AloneError(last.outcome)

\* C15: whenever a search has been processed and loading is false, the UI
\* shows a word record and no error, or an error and no word record.
C15_SuccessOrFailure ==
    (Settled /\ ~loading)
        => \/ Truthy(wordData) /\ ~Truthy(error)
           \/ ~Truthy(wordData) /\ Truthy(error)

\* C17: loading is true whenever a lookup is in flight, so the submit
\* control stays disabled until none is.
C17_LoadingWhileInFlight ==
    requests # <<>> => (loading /\ SubmitDisabled)

\* the list that was stored before startup (empty when nothing usable was)
BootList == IF SavedIsTruthy(boot) /\ JSONparse(boot.text).ok
            THEN JSONparse(boot.text).val ELSE <<>>

Entries(list) == { list[i] : i \in 1..Len(list) }

\* C19: during startup storage is never overwritten with a list that drops
\* entries stored before startup.
C19_StartupKeepsStored ==
    (~touched /\ pc # "crashed")
        => \/ storage = boot
           \/ /\ storage.present
              /\ JSONparse(storage.text).ok
              /\ Entries(BootList) \subseteq Entries(JSONparse(storage.text).val)

\* no two entries of the list map to the same lookup key
DistinctKeys(list) ==
    \A i, j \in 1..Len(list) : LookupKey(list[i]) = LookupKey(list[j]) => i = j

\* C20: the history never holds two entries that map to the same lookup
\* key (here: given that the list stored before startup held none).
C20_OneEntryPerKey == DistinctKeys(BootList) => DistinctKeys(searchHistory)


\* the first n entries of a list
FirstN(list, n) == [i \in 1..(IF Len(list) < n THEN Len(list) ELSE n) |-> list[i]]

IsPrefix(p, list) == Len(p) <= Len(list) /\ \A i \in 1..Len(p) : p[i] = list[i]

\* C18: with several searches in flight no history update is lost: the
\* terms whose lookups succeeded are all in the history (up to the cap of
\* 5), the latest arrival first.
C18_NoLostHistoryUpdate == IsPrefix(FirstN(arrived, 5), searchHistory)

C18_Witness ==
    /\ Settled /\ requests = <<>>
    /\ Len(arrived) = 2
    /\ arrived[1] = last.word
    /\ Len(searchHistory) > 2
    /\ searchHistory[1] = arrived[1] /\ searchHistory[2] = arrived[2]


RECURSIVE SplitLine(_, _)
\* the entries of a displayed line: the texts between the ', '
SplitLine(text, entry) ==
    IF text = <<>> THEN <<entry>>
    ELSE IF Len(text) >= 2 /\ SubSeq(text, 1, 2) = <<",", " ">>
         THEN <<entry>> \o SplitLine(SubSeq(text, 3, Len(text)), <<>>)
         ELSE SplitLine(Tail(text), Append(entry, Head(text)))

DisplayedEntries(line) == IF line.shown THEN SplitLine(line.text, <<>>) ELSE <<>>

\* the entries of a list of a definition, none when the list is missing
ItemsOf(list) == IF list.t = "array" THEN list.items ELSE <<>>

\* C13: for every definition the synonyms line shows the first min(5, n) of
\* its n synonyms in their order, and so does the antonyms line: a list
\* longer than 5 is shown as exactly 5 entries.
C13_FirstFiveInOrder ==
    pc = "rendered" =>
        \A m \in 1..Len(wordData.meanings) :
            \A d \in 1..Len(wordData.meanings[m].definitions) :
                LET def == wordData.meanings[m].definitions[d]
                    shown == view.meanings[m][d]
                IN /\ DisplayedEntries(shown.synonyms) = FirstN(ItemsOf(def.synonyms), 5)
                   /\ DisplayedEntries(shown.antonyms) = FirstN(ItemsOf(def.antonyms), 5)
                   /\ Len(ItemsOf(def.synonyms)) > 5 => Len(DisplayedEntries(shown.synonyms)) = 5
                   /\ Len(ItemsOf(def.antonyms)) > 5 => Len(DisplayedEntries(shown.antonyms)) = 5

C13_Witness ==
    /\ pc = "rendered"
    /\ Len(ItemsOf(wordData.meanings[1].definitions[1].synonyms)) = 6
    /\ Len(ItemsOf(wordData.meanings[1].definitions[1].antonyms)) = 3
    /\ Len(DisplayedEntries(view.meanings[1][1].synonyms)) = 5
    /\ Len(DisplayedEntries(view.meanings[1][1].antonyms)) = 3

\* an entry carries an audio URL: its audio is a non-empty string
CarriesAudio(p) == p.audio.t = "string" /\ p.audio.s # ""

\* the affordances of C16 other than which URL is played
C16_Affordances ==
    /\ view.shown
    /\ view.playAudio.shown <=> \E i \in 1..Len(wordData.phonetics) : CarriesAudio(wordData.phonetics[i])
    /\ view.pronounce.shown
    /\ view.pronounce.speaks = wordData.word

\* C16 (as claimed): the audio affordance is available exactly when some
\* phonetic entry carries an audio URL, activating it plays the FIRST
\* phonetic entry's audio URL, and text-to-speech is always available.
C16_PlaysFirstEntry ==
    pc = "rendered" =>
        /\ C16_Affordances
        /\ view.playAudio.shown => view.playAudio.plays = wordData.phonetics[1].audio

\* C16 (amended): ... activating it plays the audio URL of the first
\* phonetic entry that carries one ...
C16_PlaysFirstEntryWithAudio ==
    pc = "rendered" =>
        /\ C16_Affordances
        /\ view.playAudio.shown =>
              \E i \in 1..Len(wordData.phonetics) :
                  /\ CarriesAudio(wordData.phonetics[i])
                  /\ \A j \in 1..(i - 1) : ~CarriesAudio(wordData.phonetics[j])
                  /\ view.playAudio.plays = wordData.phonetics[i].audio

C16_Witness ==
    /\ pc = "rendered"
    /\ Len(wordData.phonetics) = 2
    /\ ~CarriesAudio(wordData.phonetics[1])
    /\ wordData.phonetics[2].audio = Str("u2")
    /\ view.playAudio.shown
    /\ view.playAudio.plays = Str("u2")

\* a playback has just failed and its catch handler has run
PlaybackFailed == last'.op = "playfail"

\* error, wordData, loading and the history are as before the step
NothingSurfaced == UNCHANGED <<error, wordData, loading, searchHistory>>

\* C11 (as claimed): when audio playback fails, speech synthesis of the
\* headword of the displayed word record is invoked, and the error message,
\* word record, loading flag and history are left unchanged.
C11_FallbackSpeaksDisplayed ==
    [][PlaybackFailed =>
          /\ NothingSurfaced
          /\ wordData.t = "object"
          /\ spoken' = Utterance(wordData.word)]_vars

\* C11 (amended): when audio playback fails, the headword of the record
\* that was displayed when that playback was started is spoken, provided the
\* platform has speech synthesis (nothing is spoken otherwise), and the
\* error message, word record, loading flag and history are left unchanged.
C11_FallbackSpeaksClicked ==
    [][PlaybackFailed =>
          /\ NothingSurfaced
          /\ \E i \in 1..Len(plays) :
                /\ plays' = RemoveAt(plays, i)
                /\ plays[i].closure.t = "object"
                /\ last'.word = plays[i].closure.word
                /\ speech => spoken' = Utterance(plays[i].closure.word)
                /\ ~speech => spoken' = spoken]_vars

\* a playback started for one word failed while another, or none, was displayed
C11_Witness ==
    /\ last.op = "playfail"
    /\ speech
    /\ spoken = Utterance(last.word)
    /\ wordData.t = "object" => wordData.word # last.word
    /\ error = Null

====
